---- MODULE Spec2Model ----
(***************************************************************************)
(* Bill-Extractor (src/bill_extractor.py): the text source resolver, the   *)
(* regular-expression field extractor, the validator, the three result    *)
(* renderings, the ExtractionThread worker and the BillExtractorGUI slots. *)
(*                                                                         *)
(* A Python str is a sequence of one-character strings, so that lower(),   *)
(* title(), strip(), split(), endswith() and re.search() are computed      *)
(* character by character.                                                 *)
(***************************************************************************)
EXTENDS Integers, Sequences, FiniteSets

(* ------------------------------------------------------------------ *)
(* Bounds of the model                                                 *)
(* ------------------------------------------------------------------ *)
\* lines per input text drawn from LinePool
MaxLines == 2
\* pages of a PDF
MaxPages == 2
\* ExtractionThread objects that may be alive at once
MaxThreads == 2

(* ------------------------------------------------------------------ *)
(* Characters and str methods                                          *)
(* ------------------------------------------------------------------ *)
UC == <<"A","B","C","D","E","F","G","H","I","J","K","L","M","N","O","P","Q","R","S","T","U","V","W","X","Y","Z">>
LC == <<"a","b","c","d","e","f","g","h","i","j","k","l","m","n","o","p","q","r","s","t","u","v","w","x","y","z">>

Range(s) == {s[i] : i \in 1..Len(s)}

UpperChars == Range(UC)
LowerChars == Range(LC)
DigitChars == Range(<<"0","1","2","3","4","5","6","7","8","9">>)
\* \w of re (str patterns): letters, digits and the underscore
WordChars == UpperChars \cup LowerChars \cup DigitChars \cup {"_"}
\* \s of re, and the characters str.strip() removes
SpaceChars == {" ", "\t", "\n", "\r", "\f"}

IndexIn(s, c) == CHOOSE i \in 1..Len(s) : s[i] = c

Lower(c) == IF c \in UpperChars THEN LC[IndexIn(UC, c)] ELSE c

Upper(c) == IF c \in LowerChars THEN UC[IndexIn(LC, c)] ELSE c

IsCased(c) == c \in UpperChars \cup LowerChars

\* str.lower()
str_lower(s) == [i \in 1..Len(s) |-> Lower(s[i])]

\* str.title(): a cased character is upper-cased when the character before
\* it is not cased, and lower-cased otherwise
str_title(s) == [i \in 1..Len(s) |->
                   IF i > 1 /\ IsCased(s[i-1]) THEN Lower(s[i]) ELSE Upper(s[i])]

\* str.replace(a, b) for one-character a and b
str_replace(s, a, b) == [i \in 1..Len(s) |-> IF s[i] = a THEN b ELSE s[i]]

\* str.endswith(suffix)
str_endswith(s, suffix) ==
    /\ Len(suffix) <= Len(s)
    /\ SubSeq(s, Len(s) - Len(suffix) + 1, Len(s)) = suffix

\* str.strip()
str_strip(s) ==
    LET keep == {i \in 1..Len(s) : s[i] \notin SpaceChars}
    IN  IF keep = {} THEN <<>>
        ELSE LET lo == CHOOSE i \in keep : \A j \in keep : i <= j
                 hi == CHOOSE i \in keep : \A j \in keep : j <= i
             IN  SubSeq(s, lo, hi)

Contains(s, c) == \E i \in 1..Len(s) : s[i] = c

FirstIndex(s, c) == CHOOSE i \in 1..Len(s) : s[i] = c /\ \A j \in 1..(i-1) : s[j] # c

\* str.split(c) for a one-character separator
RECURSIVE str_split(_, _)
str_split(s, c) ==
    IF ~Contains(s, c) THEN <<s>>
    ELSE LET i == FirstIndex(s, c)
         IN  <<SubSeq(s, 1, i-1)>> \o str_split(SubSeq(s, i+1, Len(s)), c)

\* sep.join(parts)
RECURSIVE str_join(_, _)
str_join(sep, parts) ==
    IF parts = <<>> THEN <<>>
    ELSE IF Len(parts) = 1 THEN parts[1]
    ELSE parts[1] \o sep \o str_join(sep, Tail(parts))

(* ------------------------------------------------------------------ *)
(* dict: an insertion-ordered sequence of <<key, value>> pairs         *)
(* ------------------------------------------------------------------ *)
DictKeys(d) == [i \in 1..Len(d) |-> d[i][1]]

DictHas(d, k) == \E i \in 1..Len(d) : d[i][1] = k

\* d[k] = v: an existing key keeps its place
DictSet(d, k, v) ==
    IF DictHas(d, k)
    THEN [i \in 1..Len(d) |-> IF d[i][1] = k THEN <<k, v>> ELSE d[i]]
    ELSE Append(d, <<k, v>>)

(* ------------------------------------------------------------------ *)
(* re: a backtracking matcher. Ends(r, t, p) is the sequence of        *)
(* positions where a match of r starting at p can end, in the order    *)
(* the backtracking search tries them (greedy quantifiers longest      *)
(* first, alternatives left to right). re.IGNORECASE: a literal is     *)
(* compared in lower case.                                             *)
(* ------------------------------------------------------------------ *)
Lit(s) == <<"lit", s>>
Cls(S) == <<"cls", S>>
Star(S) == <<"star", S>>
Plus(S) == <<"plus", S>>
Rep(S, n) == <<"rep", S, n>>
Opt(r) == <<"opt", r>>
Alt(rs) == <<"alt", rs>>
Cat(rs) == <<"cat", rs>>

\* the length of the longest run of characters of S at position p
RECURSIVE RunLen(_, _, _)
RunLen(S, t, p) == IF p <= Len(t) /\ t[p] \in S THEN 1 + RunLen(S, t, p+1) ELSE 0

LitAt(s, t, p) ==
    /\ p + Len(s) - 1 <= Len(t)
    /\ \A i \in 1..Len(s) : Lower(t[p+i-1]) = Lower(s[i])

\* <<hi, hi-1, ..., lo>>
Down(hi, lo) == [i \in 1..(hi - lo + 1) |-> hi - i + 1]

RECURSIVE Ends(_, _, _)
RECURSIVE EndsAlt(_, _, _)
RECURSIVE EndsCat(_, _, _)
RECURSIVE EndsFrom(_, _, _)
Ends(r, t, p) ==
    CASE r[1] = "lit"  -> IF LitAt(r[2], t, p) THEN <<p + Len(r[2])>> ELSE <<>>
      [] r[1] = "cls"  -> IF p <= Len(t) /\ t[p] \in r[2] THEN <<p + 1>> ELSE <<>>
      [] r[1] = "star" -> Down(p + RunLen(r[2], t, p), p)
      [] r[1] = "plus" -> Down(p + RunLen(r[2], t, p), p + 1)
      [] r[1] = "rep"  -> IF RunLen(r[2], t, p) >= r[3] THEN <<p + r[3]>> ELSE <<>>
      [] r[1] = "opt"  -> Ends(r[2], t, p) \o <<p>>
      [] r[1] = "alt"  -> EndsAlt(r[2], t, p)
      [] r[1] = "cat"  -> EndsCat(r[2], t, p)

EndsAlt(rs, t, p) ==
    IF rs = <<>> THEN <<>> ELSE Ends(Head(rs), t, p) \o EndsAlt(Tail(rs), t, p)

\* the ends of rs from each position of ps, in order
EndsFrom(rs, t, ps) ==
    IF ps = <<>> THEN <<>> ELSE EndsCat(rs, t, Head(ps)) \o EndsFrom(rs, t, Tail(ps))

EndsCat(rs, t, p) ==
    IF rs = <<>> THEN <<p>> ELSE EndsFrom(Tail(rs), t, Ends(Head(rs), t, p))

(* ------------------------------------------------------------------ *)
(* extract_information                                                 *)
(* ------------------------------------------------------------------ *)
\* the sentinel of an unmatched field
NotFound == <<"N","o","t"," ","f","o","u","n","d">>

K_invoice_number == <<"i","n","v","o","i","c","e","_","n","u","m","b","e","r">>
K_invoice_date == <<"i","n","v","o","i","c","e","_","d","a","t","e">>
K_amount_due == <<"a","m","o","u","n","t","_","d","u","e">>
K_due_date == <<"d","u","e","_","d","a","t","e">>
K_account_number == <<"a","c","c","o","u","n","t","_","n","u","m","b","e","r">>
K_billing_period == <<"b","i","l","l","i","n","g","_","p","e","r","i","o","d">>
K_consumer_number == <<"c","o","n","s","u","m","e","r","_","n","u","m","b","e","r">>
K_product == <<"p","r","o","d","u","c","t">>
K_quantity == <<"q","u","a","n","t","i","t","y">>
K_rate == <<"r","a","t","e">>

\* InitialInfo with the default of the last field forgotten
InitialInfo_NoRate ==
    << <<K_invoice_number, NotFound>>, <<K_invoice_date, NotFound>>,
       <<K_amount_due, NotFound>>, <<K_due_date, NotFound>>,
       <<K_account_number, NotFound>>, <<K_billing_period, NotFound>>,
       <<K_consumer_number, NotFound>>, <<K_product, NotFound>>,
       <<K_quantity, NotFound>> >>

\* the dict literal of lines 103-114
InitialInfo ==
    << <<K_invoice_number, NotFound>>, <<K_invoice_date, NotFound>>,
       <<K_amount_due, NotFound>>, <<K_due_date, NotFound>>,
       <<K_account_number, NotFound>>, <<K_billing_period, NotFound>>,
       <<K_consumer_number, NotFound>>, <<K_product, NotFound>>,
       <<K_quantity, NotFound>>, <<K_rate, NotFound>> >>

\* [.:]\s* between a label and its value
Sep == Cat(<<Cls({".", ":"}), Star(SpaceChars)>>)

\* \d{2}[./-]\d{2}[./-]\d{4}
DateRe == Cat(<<Rep(DigitChars, 2), Cls({".", "/", "-"}), Rep(DigitChars, 2),
               Cls({".", "/", "-"}), Rep(DigitChars, 4)>>)

\* A pattern is label, mid, val: val is the last capture group of the
\* pattern, and the label is a capture group of its own when labelGroup.
Pattern(key, label, labelGroup, mid, val) ==
    [key |-> key, label |-> label, labelGroup |-> labelGroup, mid |-> mid, val |-> val]

\* the dict literal of lines 117-128, in its order
patterns ==
    << Pattern(K_invoice_number, Lit(<<"I","n","v","o","i","c","e"," ","N","u","m","b","e","r">>), FALSE, Sep, Plus(WordChars)),
       Pattern(K_invoice_date, Alt(<<Lit(<<"I","n","v","o","i","c","e"," ","D","a","t","e">>), Lit(<<"D","a","t","e">>)>>), TRUE, Sep, DateRe),
       Pattern(K_amount_due,
               Alt(<<Lit(<<"T","o","t","a","l"," ","A","m","o","u","n","t"," ","D","u","e">>), Lit(<<"T","O","T","A","L"," ","A","M","O","U","N","T"," ","D","U","E">>), Lit(<<"A","m","o","u","n","t">>),
                     Lit(<<"T","o","t","a","l"," ","I","n","v","o","i","c","e"," ","A","m","o","u","n","t">>), Lit(<<"A","m","o","u","n","t"," ","T","e","n","d","e","r","e","d">>),
                     Lit(<<"D","u","e"," ","A","m","o","u","n","t">>), Lit(<<"C","u","r","r","e","n","t"," ","d","e","m","a","n","d">>),
                     Lit(<<"T","o"," ","t","h","e"," ","t","o","t","a","l"," ","d","u","e"," ","d","a","t","e">>)>>),
               TRUE,
               Cat(<<Opt(Cls({".", ":"})), Star(SpaceChars),
                     Opt(Alt(<<Lit(<<"I","N","R">>), Cat(<<Lit(<<"R","s">>), Opt(Lit(<<".">>))>>)>>)),
                     Star(SpaceChars)>>),
               Plus(DigitChars \cup {",", "."})),
       Pattern(K_due_date, Lit(<<"D","u","e"," ","D","a","t","e">>), FALSE, Sep, DateRe),
       Pattern(K_account_number,
               Alt(<<Lit(<<"A","c","c","o","u","n","t"," ","N","u","m","b","e","r">>), Lit(<<"B","U","S","I","N","E","S","S"," ","P","A","R","T","N","E","R"," ","N","O",".">>)>>), TRUE,
               Sep, Plus(WordChars)),
       Pattern(K_billing_period, Lit(<<"B","i","l","l","i","n","g"," ","P","e","r","i","o","d">>), FALSE, Sep,
               Cat(<<Plus(DigitChars \cup {"/"}), Lit(<<" ","t","o"," ">>), Plus(DigitChars \cup {"/"})>>)),
       Pattern(K_consumer_number, Lit(<<"C","o","n","s","u","m","e","r"," ","N","u","m","b","e","r">>), FALSE, Sep, Plus(WordChars)),
       Pattern(K_product, Lit(<<"P","r","o","d","u","c","t">>), FALSE, Plus(SpaceChars),
               Alt(<<Lit(<<"P","E","T","R","O","L">>), Plus(WordChars)>>)),
       Pattern(K_quantity, Alt(<<Lit(<<"Q","t","y">>), Lit(<<"q","u","a","n","t","i","t","y">>)>>), TRUE,
               Plus(SpaceChars), Plus(DigitChars \cup {"."})),
       Pattern(K_rate, Alt(<<Lit(<<"R","a","t","e","-","R","s">>), Lit(<<"P","r","i","c","e","/","S","C","M"," ","i","n"," ","I","N","R">>)>>), TRUE,
               Plus(SpaceChars), Plus(DigitChars \cup {"."})) >>

\* the first position of ms from which val matches, or 0
RECURSIVE FirstMid(_, _, _)
FirstMid(pat, t, ms) ==
    IF ms = <<>> THEN 0
    ELSE IF Ends(pat.val, t, Head(ms)) # <<>> THEN Head(ms)
    ELSE FirstMid(pat, t, Tail(ms))

\* the first <<l, m>>: the label ends at l, mid ends at m, val matches at m
RECURSIVE FirstLabel(_, _, _)
FirstLabel(pat, t, ls) ==
    IF ls = <<>> THEN <<>>
    ELSE LET m == FirstMid(pat, t, Ends(pat.mid, t, Head(ls)))
         IN  IF m # 0 THEN <<Head(ls), m>> ELSE FirstLabel(pat, t, Tail(ls))

\* match.groups() of a match starting at s, or <<>> when there is none
\* (no pattern matches with an empty tuple of groups)
GroupsAt(pat, t, s) ==
    LET lm == FirstLabel(pat, t, Ends(pat.label, t, s))
    IN  IF lm = <<>> THEN <<>>
        ELSE LET v == Head(Ends(pat.val, t, lm[2]))
                 value == SubSeq(t, lm[2], v - 1)
             IN  IF pat.labelGroup THEN <<SubSeq(t, s, lm[1] - 1), value>>
                 ELSE <<value>>

\* re.search(pattern, text, re.IGNORECASE): the groups of the leftmost match
re_search(pat, t) ==
    LET starts == {s \in 1..(Len(t) + 1) : GroupsAt(pat, t, s) # <<>>}
    IN  IF starts = {} THEN <<>>
        ELSE GroupsAt(pat, t, CHOOSE s \in starts : \A u \in starts : s <= u)

\* match.group(1) if len(match.groups()) == 1 else match.group(2)
SelectGroup(groups) == IF Len(groups) = 1 THEN groups[1] ELSE groups[2]

\* the loop of lines 130-134 from pattern i on
RECURSIVE ExtractLoop(_, _, _)
ExtractLoop(info, text, i) ==
    IF i > Len(patterns) THEN info
    ELSE LET groups == re_search(patterns[i], text)
         IN  ExtractLoop(IF groups # <<>>
                         THEN DictSet(info, patterns[i].key, SelectGroup(groups))
                         ELSE info,
                         text, i + 1)

\* extracted_info when the loop has ended
ExtractedInfo(text) == ExtractLoop(InitialInfo, text, 1)

\* f"{k.replace('_', ' ').title()}: {v}"
TitleLine(k, v) == str_title(str_replace(k, "_", " ")) \o <<":"," ">> \o v

\* '\n'.join([f"{k.replace('_', ' ').title()}: {v}" for k, v in d.items()])
TitleLines(d) == str_join(<<"\n">>, [i \in 1..Len(d) |-> TitleLine(d[i][1], d[i][2])])

extract_information(text) == TitleLines(ExtractedInfo(text))

(* ------------------------------------------------------------------ *)
(* validate_extracted_info                                             *)
(* ------------------------------------------------------------------ *)
\* ValidateLine without the test of the sentinel
ValidateLine_KeepAll(validated_info, line) ==
    IF Contains(line, ":")
    THEN LET i == FirstIndex(line, ":")
             key == str_replace(str_lower(str_strip(SubSeq(line, 1, i - 1))), " ", "_")
             value == str_strip(SubSeq(line, i + 1, Len(line)))
         IN  DictSet(validated_info, key, value)
    ELSE validated_info

\* ValidateLine without value.strip()
ValidateLine_NoStrip(validated_info, line) ==
    IF Contains(line, ":")
    THEN LET i == FirstIndex(line, ":")
             key == str_replace(str_lower(str_strip(SubSeq(line, 1, i - 1))), " ", "_")
             value == SubSeq(line, i + 1, Len(line))
         IN  IF value # NotFound THEN DictSet(validated_info, key, value)
             ELSE validated_info
    ELSE validated_info

\* the body of the loop of lines 144-151 for one line
ValidateLine(validated_info, line) ==
    IF Contains(line, ":")
    THEN LET i == FirstIndex(line, ":")
             key == str_replace(str_lower(str_strip(SubSeq(line, 1, i - 1))), " ", "_")
             value == str_strip(SubSeq(line, i + 1, Len(line)))
         IN  IF value # NotFound THEN DictSet(validated_info, key, value)
             ELSE validated_info
    ELSE validated_info

RECURSIVE ValidateLoop(_, _)
ValidateLoop(validated_info, lines) ==
    IF lines = <<>> THEN validated_info
    ELSE ValidateLoop(ValidateLine(validated_info, Head(lines)), Tail(lines))

validate_extracted_info(extracted_text) ==
    ValidateLoop(<<>>, str_split(extracted_text, "\n"))

(* ------------------------------------------------------------------ *)
(* display_results: the three renderings                               *)
(* ------------------------------------------------------------------ *)
\* the escapes json.dumps writes inside a string
JsonEscapeChar(c) ==
    CASE c = "\"" -> <<"\\", "\"">>
      [] c = "\\" -> <<"\\", "\\">>
      [] c = "\n" -> <<"\\", "n">>
      [] c = "\t" -> <<"\\", "t">>
      [] c = "\r" -> <<"\\", "r">>
      [] OTHER -> <<c>>

RECURSIVE JsonEscape(_)
JsonEscape(s) == IF s = <<>> THEN <<>> ELSE JsonEscapeChar(Head(s)) \o JsonEscape(Tail(s))

JsonString(s) == <<"\"">> \o JsonEscape(s) \o <<"\"">>

\* json.dumps(validated_info, indent=2)
json_dumps(d) ==
    IF d = <<>> THEN <<"{","}">>
    ELSE <<"{","\n">>
         \o str_join(<<",","\n">>, [i \in 1..Len(d) |->
                <<" "," ">> \o JsonString(d[i][1]) \o <<":"," ">> \o JsonString(d[i][2])])
         \o <<"\n","}">>

\* 'Key,Value\n' + '\n'.join([f"{k},{v}" for k, v in validated_info.items()])
csv_output(d) ==
    <<"K","e","y",",","V","a","l","u","e","\n">> \o str_join(<<"\n">>, [i \in 1..Len(d) |-> d[i][1] \o <<",">> \o d[i][2]])

Formats == {"Text", "JSON", "CSV"}

\* the output of display_results for the selected format
display_output(output_format, validated_info) ==
    CASE output_format = "Text" -> TitleLines(validated_info)
      [] output_format = "JSON" -> json_dumps(validated_info)
      [] output_format = "CSV"  -> csv_output(validated_info)

(* ------------------------------------------------------------------ *)
(* The documents: what open(), PyPDF2 and the OCR oracle give for a     *)
(* path. A file is [path, readable, valid, pages, content, ocr]:        *)
(* readable: open() succeeds; valid: PdfReader parses the bytes; pages:  *)
(* page.extract_text() of each page; content: what read() returns; ocr:  *)
(* the oracle's response, [ok, text_annotations, full_text].             *)
(* ------------------------------------------------------------------ *)
\* the example text of the specification's testable properties
SampleText == <<"I","n","v","o","i","c","e"," ","N","u","m","b","e","r",":"," ","I","N","V","1","2","3","\n","T","o","t","a","l"," ","A","m","o","u","n","t"," ","D","u","e",":"," ","R","s","."," ","1",",","2","3","4",".","5","0","\n","D","u","e"," ","D","a","t","e",":"," ","0","1","/","0","2","/","2","0","2","4">>

LinePool ==
    { <<"I","n","v","o","i","c","e"," ","N","u","m","b","e","r",":"," ","I","N","V","1","2","3">>,
      <<"T","o","t","a","l"," ","A","m","o","u","n","t"," ","D","u","e",":"," ","R","s","."," ","1",",","2","3","4",".","5","0">>,
      <<"D","u","e"," ","D","a","t","e",":"," ","0","1","/","0","2","/","2","0","2","4">>,
      <<"I","n","v","o","i","c","e"," ","D","a","t","e",":"," ","0","5","-","0","1","-","2","0","2","4">>,
      <<"B","i","l","l","i","n","g"," ","P","e","r","i","o","d",":"," ","0","1","/","2","0","2","4"," ","t","o"," ","0","2","/","2","0","2","4">>,
      <<"P","r","o","d","u","c","t"," ","P","E","T","R","O","L"," ","Q","t","y"," ","2",".","5"," ","R","a","t","e","-","R","s"," ","9","6",".","7">>,
      <<"A","c","c","o","u","n","t"," ","N","u","m","b","e","r",":"," ","A","C","9"," ","C","o","n","s","u","m","e","r"," ","N","u","m","b","e","r",":"," ","C","7">>,
      <<"T","h","a","n","k"," ","y","o","u">> }

\* the sequences over S of length at most n
RECURSIVE SeqsUpTo(_, _)
SeqsUpTo(S, n) ==
    IF n = 0 THEN {<<>>}
    ELSE LET shorter == SeqsUpTo(S, n - 1)
         IN  shorter \cup {Append(q, x) : q \in shorter, x \in S}

\* the input texts: up to MaxLines lines of the pool, and the example
Texts == {str_join(<<"\n">>, ls) : ls \in SeqsUpTo(LinePool, MaxLines)} \cup {SampleText}

PagePool == { <<>>, <<" ","\t">>, <<"D","u","e"," ","D","a","t","e",":"," ","0","1","/","0","2","/","2","0","2","4">> }

PageSeqs == SeqsUpTo(PagePool, MaxPages)

OcrTexts == { <<>>, <<"T","o","t","a","l"," ","A","m","o","u","n","t"," ","D","u","e",":"," ","R","s","."," ","1",",","2","3","4",".","5","0">>, <<"T","h","a","n","k"," ","y","o","u">> }

OcrFailure == [ok |-> FALSE, text_annotations |-> <<>>, full_text |-> <<>>]

\* a response with text: the first annotation is the whole text, the
\* others are its words
OcrResponse(t) ==
    [ok |-> TRUE,
     text_annotations |-> IF t = <<>> THEN <<>> ELSE <<t, <<"w","o","r","d">>>>,
     full_text |-> t]

OcrResponses == {OcrFailure} \cup {OcrResponse(t) : t \in OcrTexts}

PdfPaths == { <<"b","i","l","l",".","p","d","f">>, <<"S","C","A","N",".","P","d","f">> }
ImagePaths == { <<"a",".","p","n","g">>, <<"b",".","J","P","G">>, <<"c",".","J","p","e","g">> }
PlainPaths == { <<"d",".","t","x","t">>, <<"p","d","f">>, <<"e",".","p","d","f",".","b","a","k">> }
Paths == PdfPaths \cup ImagePaths \cup PlainPaths

File(path, readable, valid, pages, content, ocr) ==
    [path |-> path, readable |-> readable, valid |-> valid, pages |-> pages,
     content |-> content, ocr |-> ocr]

Files ==
    {File(p, FALSE, FALSE, <<>>, <<>>, OcrFailure) : p \in Paths}
    \cup {File(p, TRUE, FALSE, <<>>, <<>>, OcrFailure) : p \in PdfPaths}
    \cup {File(p, TRUE, TRUE, pg, <<>>, o) : p \in PdfPaths, pg \in PageSeqs, o \in OcrResponses}
    \cup {File(p, TRUE, TRUE, <<>>, <<>>, o) : p \in ImagePaths, o \in OcrResponses}
    \cup {File(p, TRUE, TRUE, <<>>, c, OcrFailure) : p \in PlainPaths, c \in Texts}

\* the documents of the GUI session: an image and a text file of the same
\* bill, each readable or not, the oracle answering or not
GuiPaths == { <<"b",".","J","P","G">>, <<"d",".","t","x","t">> }

GuiText == <<"T","o","t","a","l"," ","A","m","o","u","n","t"," ","D","u","e",":"," ","R","s","."," ","1",",","2","3","4",".","5","0">>

GuiFiles ==
    {f \in Files :
        /\ f.path \in GuiPaths
        /\ f.content \in {<<>>, GuiText}
        /\ f.ocr \in {OcrFailure, OcrResponse(GuiText)}}

(* ------------------------------------------------------------------ *)
(* preprocess_document and the functions it calls. A result is          *)
(* [ok, text, exc, ocr]: the text returned or the exception raised, and *)
(* the calls made to the OCR oracle, in order.                          *)
(* ------------------------------------------------------------------ *)
Returned(text, ocr) == [ok |-> TRUE, text |-> text, exc |-> "none", ocr |-> ocr]

Raised(exc, ocr) == [ok |-> FALSE, text |-> <<>>, exc |-> exc, ocr |-> ocr]

ocr_pdf(f) ==
    IF ~f.readable THEN Raised("IOError", <<>>)
    ELSE IF ~f.ocr.ok THEN Raised("OcrServiceError", <<"document">>)
    ELSE Returned(f.ocr.full_text, <<"document">>)

\* text += page.extract_text() + "\n" for each page
RECURSIVE PagesText(_)
PagesText(pages) ==
    IF pages = <<>> THEN <<>> ELSE Head(pages) \o <<"\n">> \o PagesText(Tail(pages))

preprocess_pdf(f) ==
    IF ~f.readable THEN Raised("IOError", <<>>)
    ELSE IF ~f.valid THEN Raised("PdfReadError", <<>>)
    ELSE LET text == PagesText(f.pages)
         IN  IF str_strip(text) = <<>> THEN ocr_pdf(f) ELSE Returned(text, <<>>)

preprocess_image(f) ==
    IF ~f.readable THEN Raised("IOError", <<>>)
    ELSE IF ~f.ocr.ok THEN Raised("OcrServiceError", <<"single-image">>)
    ELSE Returned(IF f.ocr.text_annotations # <<>> THEN f.ocr.text_annotations[1] ELSE <<>>,
                  <<"single-image">>)

read_text(f) ==
    IF ~f.readable THEN Raised("IOError", <<>>) ELSE Returned(f.content, <<>>)

\* preprocess_document without file_path.lower()
preprocess_document_CaseSensitive(file_path, f) ==
    IF str_endswith(file_path, <<".","p","d","f">>) THEN preprocess_pdf(f)
    ELSE IF \E suffix \in { <<".","p","n","g">>, <<".","j","p","g">>, <<".","j","p","e","g">> } : str_endswith(file_path, suffix)
    THEN preprocess_image(f)
    ELSE read_text(f)

preprocess_document(file_path, f) ==
    IF str_endswith(str_lower(file_path), <<".","p","d","f">>) THEN preprocess_pdf(f)
    ELSE IF \E suffix \in { <<".","p","n","g">>, <<".","j","p","g">>, <<".","j","p","e","g">> } :
                str_endswith(str_lower(file_path), suffix)
    THEN preprocess_image(f)
    ELSE read_text(f)

(* ------------------------------------------------------------------ *)
(* State                                                               *)
(* ------------------------------------------------------------------ *)
VARIABLES
    \* BillExtractorGUI: file_path is <<>> while the attribute is not set
    file_path, extract_enabled, output_format, progress_bar, status_label, result_text,
    \* the ExtractionThread objects in the order of their creation: the last
    \* one is self.extraction_thread, the others are threads the GUI no longer
    \* refers to and that have not finished; and the GUI thread's queue of
    \* signals emitted by the workers and not yet delivered to their slots
    threads, queue,
    \* one run of the pipeline on its own: the document, the stage reached,
    \* the result of preprocess_document, extract_information,
    \* validate_extracted_info and the output of display_results
    p_file, p_pc, p_result, p_extracted, p_validated, p_format, p_output

gui_vars == <<file_path, extract_enabled, output_format, progress_bar, status_label,
              result_text, threads, queue>>

pipe_vars == <<p_file, p_pc, p_result, p_extracted, p_validated, p_format, p_output>>

vars == <<file_path, extract_enabled, output_format, progress_bar, status_label,
          result_text, threads, queue,
          p_file, p_pc, p_result, p_extracted, p_validated, p_format, p_output>>

Threads == DOMAIN threads

\* an ExtractionThread before __init__
BlankThread ==
    [pc |-> "blank", file_path |-> <<>>, preprocessed_text |-> <<>>,
     extracted_info |-> <<>>, validated_info |-> <<>>, exc |-> "none", sent |-> <<>>]

\* ExtractionThread(file_path), started
NewThread(path) == [BlankThread EXCEPT !.pc = "started", !.file_path = path]

ProgressEvent(value, status) ==
    [sig |-> "update_progress", value |-> value, status |-> status, info |-> <<>>]

CompleteEvent(info) ==
    [sig |-> "extraction_complete", value |-> 0, status |-> <<>>, info |-> info]

GuiInit ==
    /\ file_path = <<>>
    /\ extract_enabled = TRUE
    /\ output_format = "Text"
    /\ progress_bar = -1
    /\ status_label = <<>>
    /\ result_text = <<>>
    /\ threads = <<>>
    /\ queue = <<>>

PipeIdle ==
    /\ p_file = File(<<>>, FALSE, FALSE, <<>>, <<>>, OcrFailure)
    /\ p_pc = "off"
    /\ p_result = Returned(<<>>, <<>>)
    /\ p_extracted = <<>>
    /\ p_validated = <<>>
    /\ p_format = "Text"
    /\ p_output = <<>>

Init == GuiInit /\ PipeIdle

(* ------------------------------------------------------------------ *)
(* ExtractionThread.run, one step at a time                            *)
(* ------------------------------------------------------------------ *)
\* the exceptions a stage raises: all are subclasses of Exception
StageExceptions == {"IOError", "PdfReadError", "OcrServiceError", "MemoryError"}

\* except IOError
Caught_IOErrorOnly(exc) == exc = "IOError"

\* except Exception
Caught(exc) == exc \in StageExceptions

\* the thread after self.<signal>.emit(ev)
Sent(th, ev) == [th EXCEPT !.sent = Append(@, ev)]

\* the thread after a stage raised exc
Raises(th, exc) ==
    [th EXCEPT !.exc = exc, !.pc = IF Caught(exc) THEN "except" ELSE "uncaught"]

GuiSame == UNCHANGED <<file_path, extract_enabled, output_format, progress_bar,
                       status_label, result_text>>

\* A step of run is an emit, queued for the GUI thread, and the stage call
\* that follows it, which touches nothing but the thread's locals.

\* lines 166-167
run_preprocessing(t) ==
    /\ threads[t].pc = "started"
    /\ LET ev == ProgressEvent(10, <<"Preprocessing document...">>)
       IN  /\ queue' = Append(queue, ev)
           /\ \E f \in GuiFiles :
                /\ f.path = threads[t].file_path
                /\ LET r == preprocess_document(threads[t].file_path, f)
                   IN  threads' = [threads EXCEPT ![t] =
                          IF r.ok
                          THEN [Sent(@, ev) EXCEPT !.preprocessed_text = r.text,
                                                   !.pc = "extracting"]
                          ELSE Raises(Sent(@, ev), r.exc)]
    /\ GuiSame /\ UNCHANGED pipe_vars

\* lines 169-170: extract_information returns, or the interpreter runs out
\* of memory
run_extracting(t) ==
    /\ threads[t].pc = "extracting"
    /\ LET ev == ProgressEvent(40, <<"Extracting information...">>)
       IN  /\ queue' = Append(queue, ev)
           /\ \/ threads' = [threads EXCEPT ![t] =
                    [Sent(@, ev) EXCEPT
                        !.extracted_info = extract_information(threads[t].preprocessed_text),
                        !.pc = "validating"]]
              \/ threads' = [threads EXCEPT ![t] = Raises(Sent(@, ev), "MemoryError")]
    /\ GuiSame /\ UNCHANGED pipe_vars

\* run_validating emitting the percentage of the stage before
run_validating_Repeat40(t) ==
    /\ threads[t].pc = "validating"
    /\ LET ev == ProgressEvent(40, <<"Validating extracted information...">>)
       IN  /\ queue' = Append(queue, ev)
           /\ threads' = [threads EXCEPT ![t] =
                    [Sent(@, ev) EXCEPT
                        !.validated_info = validate_extracted_info(threads[t].extracted_info),
                        !.pc = "done"]]
    /\ GuiSame /\ UNCHANGED pipe_vars

\* lines 172-173
run_validating(t) ==
    /\ threads[t].pc = "validating"
    /\ LET ev == ProgressEvent(70, <<"Validating extracted information...">>)
       IN  /\ queue' = Append(queue, ev)
           /\ \/ threads' = [threads EXCEPT ![t] =
                    [Sent(@, ev) EXCEPT
                        !.validated_info = validate_extracted_info(threads[t].extracted_info),
                        !.pc = "done"]]
              \/ threads' = [threads EXCEPT ![t] = Raises(Sent(@, ev), "MemoryError")]
    /\ GuiSame /\ UNCHANGED pipe_vars

\* line 175
run_emit_done(t) ==
    /\ threads[t].pc = "done"
    /\ LET ev == ProgressEvent(100, <<"Extraction complete!">>)
       IN  /\ queue' = Append(queue, ev)
           /\ threads' = [threads EXCEPT ![t] = [Sent(@, ev) EXCEPT !.pc = "complete"]]
    /\ GuiSame /\ UNCHANGED pipe_vars

\* line 176
run_emit_complete(t) ==
    /\ threads[t].pc = "complete"
    /\ LET ev == CompleteEvent(threads[t].validated_info)
       IN  /\ queue' = Append(queue, ev)
           /\ threads' = [threads EXCEPT ![t] = [Sent(@, ev) EXCEPT !.pc = "returning"]]
    /\ GuiSame /\ UNCHANGED pipe_vars

\* the except clause, lines 177-179
run_except(t) ==
    /\ threads[t].pc = "except"
    /\ LET ev == ProgressEvent(100, <<"Error: ", threads[t].exc>>)
       IN  /\ queue' = Append(queue, ev)
           /\ threads' = [threads EXCEPT ![t] = [Sent(@, ev) EXCEPT !.pc = "returning"]]
    /\ GuiSame /\ UNCHANGED pipe_vars

\* the sequence s without its element i
Without(s, i) == SubSeq(s, 1, i - 1) \o SubSeq(s, i + 1, Len(s))

\* run returns and the thread finishes: its locals are gone, and the
\* object itself when the GUI no longer refers to it
run_return(t) ==
    /\ threads[t].pc = "returning"
    /\ threads' = IF t = Len(threads)
                  THEN [threads EXCEPT ![t] =
                           [BlankThread EXCEPT !.pc = "finished", !.exc = threads[t].exc]]
                  ELSE Without(threads, t)
    /\ GuiSame /\ UNCHANGED <<queue>> /\ UNCHANGED pipe_vars

(* ------------------------------------------------------------------ *)
(* BillExtractorGUI: the slots, run on the GUI thread                  *)
(* ------------------------------------------------------------------ *)
\* the file dialog returns a path (a cancelled dialog changes nothing)
select_file(path) ==
    /\ file_path' = path
    /\ UNCHANGED <<extract_enabled, output_format, progress_bar, status_label,
                   result_text, threads, queue>>
    /\ UNCHANGED pipe_vars

\* the user picks an entry of the output_format combo box
select_format(fmt) ==
    /\ output_format' = fmt
    /\ UNCHANGED <<file_path, extract_enabled, progress_bar, status_label,
                   result_text, threads, queue>>
    /\ UNCHANGED pipe_vars

\* the threads that remain when self.extraction_thread is assigned anew:
\* a finished thread is dropped with the last reference to it
Remaining ==
    IF threads # <<>> /\ threads[Len(threads)].pc = "finished"
    THEN SubSeq(threads, 1, Len(threads) - 1)
    ELSE threads

\* a click on extract_button, which emits clicked only while enabled
extract_info ==
    /\ extract_enabled
    /\ IF file_path # <<>>
       THEN /\ Len(Remaining) < MaxThreads
            /\ threads' = Append(Remaining, NewThread(file_path))
            /\ extract_enabled' = FALSE
            /\ UNCHANGED result_text
       ELSE /\ result_text' = <<"P","l","e","a","s","e"," ","s","e","l","e","c","t"," ","a"," ","f","i","l","e"," ","f","i","r","s","t",".">>
            /\ UNCHANGED <<threads, extract_enabled>>
    /\ UNCHANGED <<file_path, output_format, progress_bar, status_label, queue>>
    /\ UNCHANGED pipe_vars

\* update_progress re-enabling the button when the run is over
update_progress_Rearm(value, status) ==
    /\ progress_bar' = value
    /\ status_label' = status
    /\ extract_enabled' = (IF value = 100 THEN TRUE ELSE extract_enabled)
    /\ UNCHANGED <<result_text>>

update_progress(value, status) ==
    /\ progress_bar' = value
    /\ status_label' = status
    /\ UNCHANGED <<extract_enabled, result_text>>

display_results(validated_info) ==
    /\ result_text' = display_output(output_format, validated_info)
    /\ extract_enabled' = TRUE
    /\ UNCHANGED <<progress_bar, status_label>>

\* the GUI thread's event loop delivers the oldest queued signal
gui_deliver ==
    /\ queue # <<>>
    /\ queue' = Tail(queue)
    /\ IF Head(queue).sig = "update_progress"
       THEN update_progress(Head(queue).value, Head(queue).status)
       ELSE display_results(Head(queue).info)
    /\ UNCHANGED <<file_path, output_format, threads>>
    /\ UNCHANGED pipe_vars

Next ==
    \/ \E path \in GuiPaths : select_file(path)
    \/ \E fmt \in Formats : select_format(fmt)
    \/ extract_info
    \/ gui_deliver
    \/ \E t \in Threads : run_preprocessing(t)
    \/ \E t \in Threads : run_extracting(t)
    \/ \E t \in Threads : run_validating(t)
    \/ \E t \in Threads : run_emit_done(t)
    \/ \E t \in Threads : run_emit_complete(t)
    \/ \E t \in Threads : run_except(t)
    \/ \E t \in Threads : run_return(t)

Spec == Init /\ [][Next]_vars

\* the Qt event loop keeps delivering queued signals
FairSpec == Spec /\ WF_vars(gui_deliver)

(* ------------------------------------------------------------------ *)
(* The pipeline on its own: one document through preprocess_document,   *)
(* extract_information, validate_extracted_info and display_results     *)
(* ------------------------------------------------------------------ *)
PipeInit ==
    /\ GuiInit
    /\ p_file \in Files
    /\ p_pc = "start"
    /\ p_result = Returned(<<>>, <<>>)
    /\ p_extracted = <<>>
    /\ p_validated = <<>>
    /\ p_format = "Text"
    /\ p_output = <<>>

pipe_preprocess ==
    /\ p_pc = "start"
    /\ p_result' = preprocess_document(p_file.path, p_file)
    /\ p_pc' = IF p_result'.ok THEN "preprocessed" ELSE "failed"
    /\ UNCHANGED <<p_file, p_extracted, p_validated, p_format, p_output>>
    /\ UNCHANGED gui_vars

pipe_extract ==
    /\ p_pc = "preprocessed"
    /\ p_extracted' = extract_information(p_result.text)
    /\ p_pc' = "extracted"
    /\ UNCHANGED <<p_file, p_result, p_validated, p_format, p_output>>
    /\ UNCHANGED gui_vars

pipe_validate ==
    /\ p_pc = "extracted"
    /\ p_validated' = validate_extracted_info(p_extracted)
    /\ p_pc' = "validated"
    /\ UNCHANGED <<p_file, p_result, p_extracted, p_format, p_output>>
    /\ UNCHANGED gui_vars

pipe_display(fmt) ==
    /\ p_pc = "validated"
    /\ p_format' = fmt
    /\ p_output' = display_output(fmt, p_validated)
    /\ p_pc' = "displayed"
    /\ UNCHANGED <<p_file, p_result, p_extracted, p_validated>>
    /\ UNCHANGED gui_vars

PipeNext ==
    \/ pipe_preprocess
    \/ pipe_extract
    \/ pipe_validate
    \/ \E fmt \in Formats : pipe_display(fmt)

PipeSpec == PipeInit /\ [][PipeNext]_vars

(* ------------------------------------------------------------------ *)
(* Reading the renderings back: json.loads and csv.DictReader on the    *)
(* text display_results wrote                                           *)
(* ------------------------------------------------------------------ *)
JsonUnescapeChar(c) ==
    CASE c = "n" -> "\n"
      [] c = "t" -> "\t"
      [] c = "r" -> "\r"
      [] OTHER -> c

\* the number of backslashes that end just before position j
BackslashRun(s, j) ==
    LET others == {k \in 1..(j - 1) : s[k] # "\\"}
    IN  IF others = {} THEN j - 1
        ELSE (j - 1) - (CHOOSE k \in others : \A m \in others : m <= k)

\* position j follows the backslash of an escape
Escaped(s, j) == BackslashRun(s, j) % 2 = 1

\* the elements of a set of numbers, ascending
Ascending(S) ==
    [i \in 1..Cardinality(S) |-> CHOOSE x \in S : Cardinality({y \in S : y < x}) = i - 1]

\* the string literal between the quotes at positions a and b
JsonLiteral(s, a, b) ==
    LET at == Ascending({j \in (a + 1)..(b - 1) : ~(s[j] = "\\" /\ ~Escaped(s, j))})
    IN  [i \in 1..Len(at) |->
            IF Escaped(s, at[i]) THEN JsonUnescapeChar(s[at[i]]) ELSE s[at[i]]]

\* json.loads of an object of strings, as its items in order
ParseJSON(s) ==
    LET quotes == Ascending({j \in 1..Len(s) : s[j] = "\"" /\ ~Escaped(s, j)})
        literal(n) == JsonLiteral(s, quotes[2*n - 1], quotes[2*n])
    IN  [i \in 1..(Len(quotes) \div 4) |-> <<literal(2*i - 1), literal(2*i)>>]

\* csv.DictReader: a row is split at every comma (no field of the output
\* is quoted); the first line names the columns Key and Value, a blank
\* line is no row, and fields after the second are not the Value
ParseCSV(s) ==
    LET rows == SelectSeq(str_split(s, "\n"), LAMBDA line : line # <<>>)
        fields(i) == str_split(rows[i], ",")
    IN  [i \in 1..(Len(rows) - 1) |->
            <<fields(i + 1)[1],
              IF Len(fields(i + 1)) >= 2 THEN fields(i + 1)[2] ELSE <<>> >>]

(* ------------------------------------------------------------------ *)
(* Properties                                                          *)
(* ------------------------------------------------------------------ *)
\* the percentages of the update_progress signals of sent, in order
ProgressValues(sent) ==
    LET ps == SelectSeq(sent, LAMBDA ev : ev.sig = "update_progress")
    IN  [i \in 1..Len(ps) |-> ps[i].value]

IsPrefix(a, b) == Len(a) <= Len(b) /\ SubSeq(b, 1, Len(a)) = a

Count(sent, P(_)) == Cardinality({i \in 1..Len(sent) : P(sent[i])})

IsTerminal(ev) == ev.sig = "update_progress" /\ ev.value = 100

IsComplete(ev) == ev.sig = "extraction_complete"

\* C1: a stage's exception is caught inside run (no thread ends with an
\* uncaught exception); the run then emits exactly one terminal
\* update_progress(100, "Error: ...") and never extraction_complete, so
\* nothing of an earlier stage reaches the GUI.
C1_FailureCaughtOnce ==
    \A t \in Threads :
        /\ threads[t].pc # "uncaught"
        /\ (threads[t].exc # "none" /\ threads[t].pc = "except") =>
               /\ Count(threads[t].sent, IsTerminal) = 0
               /\ Count(threads[t].sent, IsComplete) = 0
        /\ (threads[t].exc # "none" /\ threads[t].pc = "returning") =>
               /\ Count(threads[t].sent, IsTerminal) = 1
               /\ threads[t].sent[Len(threads[t].sent)]
                      = ProgressEvent(100, <<"Error: ", threads[t].exc>>)
               /\ Count(threads[t].sent, IsComplete) = 0
        /\ (threads[t].exc # "none" /\ threads[t].pc = "finished") =>
               \A i \in 1..Len(queue) : ~IsComplete(queue[i])

\* a simulated OCR failure during image preprocessing has been reported
C1_Witness ==
    \E t \in Threads :
        /\ threads[t].exc = "OcrServiceError"
        /\ threads[t].pc = "returning"
        /\ ProgressValues(threads[t].sent) = <<10, 100>>

\* C2 as stated: in every run the percentages emitted so far are a prefix
\* of 10, 40, 70, 100 (in order, none skipped, none repeated), a run that
\* is over has emitted 100 exactly once, and a successful run has emitted
\* extraction_complete exactly once, last, after all three stages.
C2_AllStagesInOrder ==
    \A t \in Threads :
        /\ IsPrefix(ProgressValues(threads[t].sent), <<10, 40, 70, 100>>)
        /\ threads[t].pc = "returning" =>
               /\ Count(threads[t].sent, IsTerminal) = 1
               /\ threads[t].exc = "none" =>
                      /\ Count(threads[t].sent, IsComplete) = 1
                      /\ IsComplete(threads[t].sent[Len(threads[t].sent)])

\* C2 amended: the percentages are a prefix of 10, 40, 70, 100, or, in a
\* run where a stage raised, a non-empty prefix of 10, 40, 70 followed by
\* 100 (the stages after the failing one are skipped); a run that is over
\* has emitted 100 exactly once; a successful run has emitted all four
\* percentages and then extraction_complete once, carrying the result of
\* the three stages.
C2_StagesInOrderUntilFailure ==
    \A t \in Threads :
        LET sent == threads[t].sent
            values == ProgressValues(sent)
        IN  /\ \/ IsPrefix(values, <<10, 40, 70, 100>>)
               \/ /\ threads[t].exc # "none"
                  /\ Len(values) >= 2
                  /\ IsPrefix(SubSeq(values, 1, Len(values) - 1), <<10, 40, 70>>)
                  /\ values[Len(values)] = 100
            /\ threads[t].exc = "none" => IsPrefix(values, <<10, 40, 70, 100>>)
            /\ threads[t].pc = "returning" =>
                   /\ Count(sent, IsTerminal) = 1
                   /\ threads[t].exc = "none" =>
                          /\ values = <<10, 40, 70, 100>>
                          /\ Count(sent, IsComplete) = 1
                          /\ threads[t].extracted_info # <<>>
                          /\ sent[Len(sent)] =
                                 CompleteEvent(validate_extracted_info(threads[t].extracted_info))
            /\ threads[t].pc # "returning" => Count(sent, IsComplete) = 0

\* a run whose extraction stage raised went from 40 to 100
C2_Witness ==
    \E t \in Threads :
        /\ threads[t].pc = "returning"
        /\ threads[t].exc = "MemoryError"
        /\ ProgressValues(threads[t].sent) = <<10, 40, 100>>

Running == {t \in Threads : threads[t].pc # "finished"}

\* C3: at most one ExtractionThread is started and not yet finished.
C3_AtMostOneRunning == Cardinality(Running) <= 1

C4_Expected ==
    << <<K_invoice_number, <<"I","N","V","1","2","3">>>>, <<K_invoice_date, NotFound>>,
       <<K_amount_due, <<"1",",","2","3","4",".","5","0">>>>, <<K_due_date, <<"0","1","/","0","2","/","2","0","2","4">>>>,
       <<K_account_number, NotFound>>, <<K_billing_period, NotFound>>,
       <<K_consumer_number, NotFound>>, <<K_product, NotFound>>,
       <<K_quantity, NotFound>>, <<K_rate, NotFound>> >>

\* C4: from the example text, extraction gives INV123, 1,234.50 and
\* 01/02/2024 for invoice_number, amount_due and due_date and the sentinel
\* for the seven other fields, invoice_date among them.
C4_SampleExtraction ==
    (p_pc = "extracted" /\ p_result.text = SampleText)
        => p_extracted = TitleLines(C4_Expected)

EmbeddedTextEmpty(f) == \A i \in 1..Len(f.pages) : \A j \in 1..Len(f.pages[i]) :
                            f.pages[i][j] \in SpaceChars

\* C5 as stated: the OCR calls are decided by the kind of the path alone.
C5_OcrCallsByKind ==
    p_pc # "start" =>
        /\ (p_file.path \in PdfPaths /\ p_file.readable /\ p_file.valid
                /\ EmbeddedTextEmpty(p_file)) =>
               /\ p_result.ocr = <<"document">>
               /\ p_file.ocr.ok => (p_result.ok /\ p_result.text = p_file.ocr.full_text)
        /\ (p_file.path \in PdfPaths /\ p_file.readable /\ p_file.valid
                /\ ~EmbeddedTextEmpty(p_file)) =>
               p_result.ocr = <<>>
        /\ p_file.path \in ImagePaths => p_result.ocr = <<"single-image">>
        /\ p_file.path \in PlainPaths => p_result.ocr = <<>>

\* C5 amended: for a file that can be opened (and, a PDF, parsed), a PDF
\* with empty or whitespace-only embedded text calls OCR once in document
\* mode and returns the oracle's text when the oracle answers, a PDF with
\* embedded text never calls OCR, an image path in any letter case calls
\* OCR once in single-image mode, any other path is read as text and
\* never calls OCR; a file that cannot be opened or parsed never calls
\* OCR, whatever its kind.
C5_OcrCallsByKindWhenReadable ==
    p_pc # "start" =>
        /\ (p_file.path \in PdfPaths /\ p_file.readable /\ p_file.valid
                /\ EmbeddedTextEmpty(p_file)) =>
               /\ p_result.ocr = <<"document">>
               /\ p_file.ocr.ok => (p_result.ok /\ p_result.text = p_file.ocr.full_text)
        /\ (p_file.path \in PdfPaths /\ p_file.readable /\ p_file.valid
                /\ ~EmbeddedTextEmpty(p_file)) =>
               (p_result.ocr = <<>> /\ p_result.ok)
        /\ (p_file.path \in ImagePaths /\ p_file.readable) =>
               p_result.ocr = <<"single-image">>
        /\ (p_file.path \in PlainPaths /\ p_file.readable) =>
               (p_result.ocr = <<>> /\ p_result.ok /\ p_result.text = p_file.content)
        /\ (~p_file.readable \/ ~p_file.valid) => (p_result.ocr = <<>> /\ ~p_result.ok)

\* an upper-case image path went to the oracle once
C5_Witness ==
    /\ p_pc = "preprocessed"
    /\ p_file.path = <<"b",".","J","P","G">>
    /\ p_result.ocr = <<"single-image">>
    /\ p_result.text # <<>>

\* the entries of a report whose value is not the sentinel
FilterReport(d) == SelectSeq(d, LAMBDA e : e[2] # NotFound)

\* C6: validating the rendered report gives the report filtered directly:
\* the non-sentinel entries, under their snake_case keys, values
\* unchanged, in the declared order.
C6_ValidateIsFilter ==
    p_pc = "validated" =>
        p_validated = FilterReport(ExtractedInfo(p_result.text))

\* a report with fields found and fields not found has been validated
C6_Witness ==
    /\ p_pc = "validated"
    /\ Len(p_validated) >= 2
    /\ Len(p_validated) < Len(InitialInfo)

\* C7: the JSON and the CSV rendering hold the pairs of the map and read
\* back as the map.
C7_RenderingsRoundTrip ==
    /\ (p_pc = "displayed" /\ p_format = "JSON") => ParseJSON(p_output) = p_validated
    /\ (p_pc = "displayed" /\ p_format = "CSV") => ParseCSV(p_output) = p_validated

FieldOrder ==
    << K_invoice_number, K_invoice_date, K_amount_due, K_due_date, K_account_number,
       K_billing_period, K_consumer_number, K_product, K_quantity, K_rate >>

\* C8: the report has the ten fields, once each, in the declared order,
\* and a field whose pattern matches nowhere in the text is "Not found".
C8_TenFieldsInOrder ==
    p_pc = "extracted" =>
        LET lines == str_split(p_extracted, "\n")
        IN  /\ DictKeys(ExtractedInfo(p_result.text)) = FieldOrder
            /\ Len(lines) = Len(FieldOrder)
            /\ \A i \in 1..Len(FieldOrder) :
                   /\ IsPrefix(str_title(str_replace(FieldOrder[i], "_", " ")) \o <<":"," ">>,
                               lines[i])
                   /\ re_search(patterns[i], p_result.text) = <<>> =>
                          lines[i] = TitleLine(FieldOrder[i], NotFound)

\* a text that no pattern matches has been extracted
C8_Witness ==
    /\ p_pc = "extracted"
    /\ p_result.text # <<>>
    /\ \A i \in 1..Len(patterns) : re_search(patterns[i], p_result.text) = <<>>

\* C9: the Text rendering of a validated map validates to the same map.
C9_ValidateIdempotent ==
    (p_pc = "displayed" /\ p_format = "Text") =>
        validate_extracted_info(p_output) = p_validated

\* a non-empty validated map has been rendered as Text
C9_Witness ==
    /\ p_pc = "displayed"
    /\ p_format = "Text"
    /\ Len(p_validated) >= 2

\* a run has reported its failure
FailedRun ==
    \E t \in Threads : threads[t].exc # "none" /\ threads[t].pc \in {"returning", "finished"}

CompletePending == \E i \in 1..Len(queue) : IsComplete(queue[i])

\* C10: the button goes from disabled to enabled only when
\* extraction_complete is delivered; once a run has failed the button is
\* disabled for ever and no thread is started any more; an emitted
\* extraction_complete leads to the button being enabled.
C10_RearmedOnlyByComplete ==
    /\ [][(~extract_enabled /\ extract_enabled') =>
             (queue # <<>> /\ IsComplete(Head(queue)) /\ queue' = Tail(queue))]_vars
    /\ [](FailedRun =>
             /\ ~extract_enabled
             /\ \A t \in Threads : threads[t].pc # "started")
    /\ [][FailedRun => FailedRun']_vars
    /\ (CompletePending ~> extract_enabled)

\* after a successful run had re-enabled the button, a run has failed and
\* its error has been delivered
C10_Witness ==
    /\ \E t \in Threads : threads[t].exc # "none" /\ threads[t].pc = "finished"
    /\ queue = <<>>
    /\ result_text \notin {<<>>, <<"P","l","e","a","s","e"," ","s","e","l","e","c","t"," ","a"," ","f","i","l","e"," ","f","i","r","s","t",".">>}
    /\ ~extract_enabled

====
